---- MODULE Spec2Model ----
(***************************************************************************)
(* Flask + PostgreSQL "items" application (examples/postgresql/app.py).    *)
(*                                                                         *)
(* The state is the database the handlers talk to: the rows of table       *)
(* items, the SERIAL sequence behind items.id, and the database clock      *)
(* that NOW() reads.  Each HTTP handler is one action; the request it      *)
(* served and the response it returned are kept in resp so that            *)
(* properties can relate a request to its effect.                          *)
(*                                                                         *)
(* Text is a sequence of one-character strings, so that str.strip() and    *)
(* ILIKE are computed rather than assumed.  A value is a number of         *)
(* hundredths (DOUBLE PRECISION 6.25 is 625).  A timestamp is a natural    *)
(* number; every transaction that stores NOW() starts strictly later than  *)
(* the previous one (each handler opens its own connection).               *)
(*                                                                         *)
(* Init is the database right after GET /init on an empty database.        *)
(***************************************************************************)
EXTENDS Integers, Sequences, FiniteSets, TLC

VARIABLES
    items,        \* rows of table items
    seq,          \* next value of the sequence items_id_seq
    now,          \* latest transaction timestamp handed out by NOW()
    resp,         \* last request served and the response returned
    removedIds,   \* history: ids of rows that have been removed
    restarted     \* history: the id sequence has been restarted

vars == <<items, seq, now, resp, removedIds, restarted>>

\* ------------------------------------------------------------------ bounds

MaxSeq == 3
MaxClock == 2
MaxBatch == 2

\* --------------------------------------------------------------- text

Space == " "

RECURSIVE LStrip(_)
LStrip(s) ==
    IF s = <<>> THEN <<>>
    ELSE IF Head(s) = Space THEN LStrip(Tail(s))
    ELSE s

RECURSIVE RStrip(_)
RStrip(s) ==
    IF s = <<>> THEN <<>>
    ELSE IF s[Len(s)] = Space THEN RStrip(SubSeq(s, 1, Len(s) - 1))
    ELSE s

\* str.strip()
Strip(s) == RStrip(LStrip(s))

\* str.lower() on the letters that occur in the model's texts
LowerChar(c) ==
    CASE c = "A" -> "a" [] c = "B" -> "b" [] c = "C" -> "c" [] c = "D" -> "d"
      [] c = "L" -> "l" [] c = "N" -> "n" [] c = "O" -> "o" [] c = "P" -> "p"
      [] OTHER -> c

Lower(s) == [i \in 1..Len(s) |-> LowerChar(s[i])]

\* s LIKE p without case: % stands for any text, _ for any one character
RECURSIVE ILike(_, _)
ILike(s, p) ==
    IF p = <<>> THEN s = <<>>
    ELSE IF Head(p) = "%"
         THEN ILike(s, Tail(p)) \/ (s # <<>> /\ ILike(Tail(s), p))
    ELSE IF s = <<>> THEN FALSE
    ELSE /\ Head(p) = "_" \/ LowerChar(Head(p)) = LowerChar(Head(s))
         /\ ILike(Tail(s), Tail(p))

\* ------------------------------------------------------- field coercion

TRUE_VALUES ==
    {<<"1">>, <<"t", "r", "u", "e">>, <<"y", "e", "s">>, <<"o", "n">>}

\* the flag arrives as text (query string or JSON string)
_as_bool(value) == Lower(Strip(value)) \in TRUE_VALUES

Ok(v) == [ok |-> TRUE, v |-> v, err |-> "none"]
Err(e) == [ok |-> FALSE, v |-> <<>>, err |-> e]

Num(n) == [num |-> TRUE, n |-> n]
NotNum == [num |-> FALSE, n |-> 0]

_coerce_name(raw) ==
    LET name == Strip(raw)
    IN  IF name = <<>> THEN Err("name is required") ELSE Ok(name)

_coerce_value(raw) ==
    IF ~raw.num THEN [ok |-> FALSE, v |-> 0, err |-> "value must be a number"]
    ELSE IF raw.n < 0 THEN [ok |-> FALSE, v |-> 0, err |-> "value must be >= 0"]
    ELSE [ok |-> TRUE, v |-> raw.n, err |-> "none"]

_coerce_note(raw) == Strip(raw)

Given(raw) == [given |-> TRUE, raw |-> raw]
Absent == [given |-> FALSE, raw |-> NotNum]

\* int(raw) if raw is not None else default; default again if int() fails;
\* then max(1, min(100, limit))
_parse_limit(arg, default) ==
    LET limit == IF arg.given /\ arg.raw.num THEN arg.raw.n ELSE default
        capped == IF limit < 100 THEN limit ELSE 100
    IN  IF capped > 1 THEN capped ELSE 1

\* dict.get(key) followed by "raw or ''": a missing key reads as empty text
GetText(data, k) == IF k \in DOMAIN data THEN data[k] ELSE <<>>

\* dict.get(key) of a missing key is None, which float() rejects
GetValue(data, k) == IF k \in DOMAIN data THEN data[k] ELSE NotNum

_parse_create_payload(data) ==
    LET n == _coerce_name(GetText(data, "name"))
        v == _coerce_value(GetValue(data, "value"))
        t == _coerce_note(GetText(data, "note"))
    IN  IF ~n.ok THEN [ok |-> FALSE, err |-> n.err]
        ELSE IF ~v.ok THEN [ok |-> FALSE, err |-> v.err]
        ELSE [ok |-> TRUE, err |-> "none",
              name |-> n.v, value |-> v.v, note |-> t]

MutableFields == {"name", "value", "note"}

_parse_partial_payload(data) ==
    LET present == DOMAIN data \cap MutableFields
        n == _coerce_name(GetText(data, "name"))
        v == _coerce_value(GetValue(data, "value"))
        t == _coerce_note(GetText(data, "note"))
    IN  IF "name" \in present /\ ~n.ok THEN [ok |-> FALSE, err |-> n.err]
        ELSE IF "value" \in present /\ ~v.ok THEN [ok |-> FALSE, err |-> v.err]
        ELSE IF present = {}
             THEN [ok |-> FALSE,
                   err |-> "provide at least one of name, value, or note"]
        ELSE [ok |-> TRUE, err |-> "none",
              fields |-> [k \in present |->
                             IF k = "name" THEN n.v
                             ELSE IF k = "value" THEN v.v
                             ELSE t]]

\* ------------------------------------------------------------ the table

Ids(store) == {r.id : r \in store}

RowOf(store, id) == CHOOSE r \in store : r.id = id

MaxOf(S) == IF S = {} THEN 0 ELSE CHOOSE m \in S : \A x \in S : x <= m

\* an id computed from the rows present instead of drawn from the sequence
SerialIdFromRows(store, s) == MaxOf(Ids(store)) + 1

\* id SERIAL: the column default is nextval('items_id_seq')
SerialId(store, s) == s

\* NOW() of a new transaction
Tick(t) == t + 1

\* the table without the UNIQUE constraint on name
ViolatesCheckOnly(store, row) == row.value < 0

\* name TEXT NOT NULL UNIQUE, value ... CHECK (value >= 0)
Violates(store, row) ==
    \/ \E r \in store : r.id # row.id /\ r.name = row.name
    \/ row.value < 0

\* an insert that leaves the note column to its default
_insert_item_without_note(store, s, t, name, value, note) ==
    LET row == [id |-> SerialId(store, s), name |-> name, value |-> value,
                note |-> <<>>, created_at |-> t, updated_at |-> t]
    IN  IF Violates(store, row)
        THEN [ok |-> FALSE, items |-> store, seq |-> s + 1, row |-> row]
        ELSE [ok |-> TRUE, items |-> store \cup {row}, seq |-> s + 1, row |-> row]

\* INSERT INTO items (name, value, note) VALUES (...) RETURNING ...
\* The sequence value is consumed even when the insert fails.
_insert_item(store, s, t, name, value, note) ==
    LET row == [id |-> SerialId(store, s), name |-> name, value |-> value,
                note |-> note, created_at |-> t, updated_at |-> t]
    IN  IF Violates(store, row)
        THEN [ok |-> FALSE, items |-> store, seq |-> s + 1, row |-> row]
        ELSE [ok |-> TRUE, items |-> store \cup {row}, seq |-> s + 1, row |-> row]

\* a SET list that names every column, with defaults for the missing ones
AssignEveryColumn(row, fields, t) ==
    [row EXCEPT
        !.name = IF "name" \in DOMAIN fields THEN fields["name"] ELSE @,
        !.value = IF "value" \in DOMAIN fields THEN fields["value"] ELSE 0,
        !.note = IF "note" \in DOMAIN fields THEN fields["note"] ELSE <<>>,
        !.updated_at = t]

\* the SET list built from the keys of fields, plus updated_at = NOW()
Assign(row, fields, t) ==
    [row EXCEPT
        !.name = IF "name" \in DOMAIN fields THEN fields["name"] ELSE @,
        !.value = IF "value" \in DOMAIN fields THEN fields["value"] ELSE @,
        !.note = IF "note" \in DOMAIN fields THEN fields["note"] ELSE @,
        !.updated_at = t]

\* UPDATE items SET ... WHERE id = %s RETURNING ...
\* found = FALSE: no fields or no row matched (None); ok = FALSE: IntegrityError
_update_item(store, t, item_id, fields) ==
    IF DOMAIN fields = {} \/ item_id \notin Ids(store)
    THEN [ok |-> TRUE, found |-> FALSE, items |-> store]
    ELSE LET old == RowOf(store, item_id)
             new == Assign(old, fields, t)
         IN  IF Violates(store, new)
             THEN [ok |-> FALSE, found |-> TRUE, items |-> store]
             ELSE [ok |-> TRUE, found |-> TRUE,
                   items |-> (store \ {old}) \cup {new}, row |-> new]

\* a delete that reports the row gone and keeps it
_delete_item_soft(store, item_id) ==
    [found |-> item_id \in Ids(store), items |-> store]

\* DELETE FROM items WHERE id = %s ; rowcount > 0
_delete_item(store, item_id) ==
    [found |-> item_id \in Ids(store),
     items |-> {r \in store : r.id # item_id}]

_serialize_item(row) ==
    [id |-> row.id, name |-> row.name, value |-> row.value, note |-> row.note,
     created_at |-> row.created_at, updated_at |-> row.updated_at]

\* INSERT ... ON CONFLICT (name) DO NOTHING
UpsertKeepingFirst(db, t, p) ==
    LET row == [id |-> SerialId(db.items, db.seq), name |-> p.name,
                value |-> p.value, note |-> p.note,
                created_at |-> t, updated_at |-> t]
    IN  [seq |-> db.seq + 1,
         items |-> IF \E r \in db.items : r.name = p.name THEN db.items
                   ELSE db.items \cup {row}]

\* INSERT ... ON CONFLICT (name) DO UPDATE SET value, note, updated_at = NOW()
\* on db = [items, seq]; the sequence value is consumed on either path
Upsert(db, t, p) ==
    LET row == [id |-> SerialId(db.items, db.seq), name |-> p.name,
                value |-> p.value, note |-> p.note,
                created_at |-> t, updated_at |-> t]
        hit == {r \in db.items : r.name = p.name}
    IN  [seq |-> db.seq + 1,
         items |-> IF hit = {} THEN db.items \cup {row}
                   ELSE (db.items \ hit)
                        \cup {[r EXCEPT !.value = p.value, !.note = p.note,
                                        !.updated_at = t] : r \in hit}]

\* cur.executemany: the statement once per parsed row, in order
RECURSIVE ExecuteMany(_, _, _)
ExecuteMany(db, t, rows) ==
    IF rows = <<>> THEN db
    ELSE ExecuteMany(Upsert(db, t, Head(rows)), t, Tail(rows))

\* a TRUNCATE that restarts the sequence and leaves the rows
TruncateNothing(db) == [seq |-> 1, items |-> db.items]

\* TRUNCATE TABLE items RESTART IDENTITY
Truncate(db) == [seq |-> 1, items |-> {}]

\* ORDER BY key: every sequence of the rows of S in which key never decreases;
\* rows with equal keys come in any order
RECURSIVE OrderBy(_, _)
OrderBy(S, key) ==
    IF S = {} THEN {<<>>}
    ELSE UNION {{<<m>> \o q : q \in OrderBy(S \ {m}, key)} :
                  m \in {x \in S : \A o \in S : key[x] <= key[o]}}

\* --------------------------------------------------------------- inputs

\* the request payloads tried: well-formed ones, ones that differ only by
\* surrounding blanks, and one of each kind of malformed field
CreateInputs ==
    {[name |-> <<"a">>, value |-> Num(150), note |-> <<"x">>],
     [name |-> <<" ", "a">>, value |-> Num(0), note |-> <<>>],
     [name |-> <<"b">>, value |-> Num(0), note |-> <<"x", " ">>],
     [name |-> <<"b">>, value |-> Num(150)],
     [name |-> <<" ">>, value |-> Num(150), note |-> <<>>],
     [name |-> <<"a">>, value |-> Num(-1), note |-> <<>>],
     [name |-> <<"b">>, value |-> NotNum, note |-> <<>>],
     [name |-> <<"a">>]}

AddInputs ==
    {[name |-> <<"a">>, value |-> Num(0), note |-> <<>>],
     [name |-> <<"b", " ">>, value |-> Num(150), note |-> <<>>],
     [name |-> <<>>, value |-> Num(0), note |-> <<>>]}

PatchInputs ==
    {[note |-> <<"x", " ">>],
     [note |-> <<>>],
     [name |-> <<"b">>],
     [name |-> <<" ", "a">>],
     [name |-> <<>>],
     [value |-> Num(150)],
     [value |-> Num(-1)],
     [name |-> <<"b">>, value |-> Num(0)],
     [name |-> <<"a">>, value |-> NotNum, note |-> <<"x">>],
     [other |-> <<"x">>]}

\* the ids requests ask for
IdInputs == {1, 2}

SEED_ITEMS ==
    <<[obj |-> TRUE,
       data |-> [name |-> <<"D", "e", "s", "k">>, value |-> Num(19999),
                 note |-> <<"Spacious", " ", "work", " ", "surface">>]],
      [obj |-> TRUE,
       data |-> [name |-> <<"C", "h", "a", "i", "r">>, value |-> Num(8950),
                 note |-> <<"Ergonomic", " ", "and", " ", "adjustable">>]],
      [obj |-> TRUE,
       data |-> [name |-> <<"L", "a", "m", "p">>, value |-> Num(3500),
                 note |-> <<"LED", " ", "task", " ", "lighting">>]],
      [obj |-> TRUE,
       data |-> [name |-> <<"N", "o", "t", "e", "b", "o", "o", "k">>,
                 value |-> Num(625),
                 note |-> <<"Grid-paper", " ", "notebook">>]],
      [obj |-> TRUE,
       data |-> [name |-> <<"P", "l", "a", "n", "t">>, value |-> Num(1875),
                 note |-> <<"Adds", " ", "a", " ", "splash", " ", "of", " ",
                            "green">>]]>>

\* entries of a seed batch: three that validate (two of them with the same
\* name once trimmed), one for each way an entry can fail to validate
EntryA == [obj |-> TRUE,
           data |-> [name |-> <<"a">>, value |-> Num(150), note |-> <<"x">>]]
EntryA2 == [obj |-> TRUE,
            data |-> [name |-> <<" ", "a">>, value |-> Num(0), note |-> <<>>]]
EntryB == [obj |-> TRUE, data |-> [name |-> <<"b">>, value |-> Num(0)]]
EntryNegative == [obj |-> TRUE,
                  data |-> [name |-> <<"b">>, value |-> Num(-1), note |-> <<>>]]
EntryNotNumber == [obj |-> TRUE,
                   data |-> [name |-> <<"a">>, value |-> NotNum]]
EntryNoName == [obj |-> TRUE,
                data |-> [name |-> <<" ">>, value |-> Num(150)]]
EntryNotObject == [obj |-> FALSE, data |-> [text |-> <<"b">>]]

ValidEntries == {EntryA, EntryA2, EntryB}
InvalidEntries == {EntryNegative, EntryNotNumber, EntryNoName, EntryNotObject}
SeedEntries == ValidEntries \cup InvalidEntries

\* the "items" member of the request body: a non-empty list of entries
\* that validate
ValidBodies ==
    {[kind |-> "list", list |-> l] :
        l \in UNION {[1..n -> ValidEntries] : n \in 1..MaxBatch}}

\* the same with fewer entries to choose from
CoreBodies ==
    {[kind |-> "list", list |-> l] :
        l \in UNION {[1..n -> {EntryA2, EntryB}] : n \in 1..MaxBatch}}

\* lists in which an entry that does not validate comes alone, last or first
InvalidBodies ==
    {[kind |-> "list", list |-> l] :
        l \in UNION {{<<e>>, <<EntryA, e>>, <<e, EntryB>>} : e \in InvalidEntries}}

\* "items" missing (or null), and an empty list
OtherBodies ==
    {[kind |-> "missing", list |-> <<>>], [kind |-> "list", list |-> <<>>]}

BatchBodies ==
    ValidBodies \cup InvalidBodies \cup {[kind |-> "scalar", list |-> <<>>]}

ReplaceInputs == {<<"O", "n", " ">>, <<"0">>}

\* the query string of GET /search: q, min_value, max_value (a missing and an
\* empty argument are both Absent) and limit
QueryInputs == {<<>>, <<"a", " ">>, <<"B">>, <<"_">>}
MinInputs == {Absent, Given(Num(150)), Given(Num(200)), Given(Num(-1))}
MaxInputs == {Absent, Given(Num(0)), Given(Num(150))}
LimitInputs == {Absent, Given(Num(0)), Given(Num(1)), Given(Num(2)), Given(NotNum)}

DefaultLimit == 20

\* tables the search is tried on: any of three rows, two of them of equal value
SearchRows ==
    {[id |-> 1, name |-> <<"a">>, value |-> 150, note |-> <<>>,
      created_at |-> 1, updated_at |-> 1],
     [id |-> 2, name |-> <<"A", "b">>, value |-> 150, note |-> <<"x">>,
      created_at |-> 1, updated_at |-> 1],
     [id |-> 3, name |-> <<"b">>, value |-> 0, note |-> <<>>,
      created_at |-> 1, updated_at |-> 1]}

\* ------------------------------------------------------------- handlers

Init ==
    /\ items = {}
    /\ seq = 1
    /\ now = 0
    /\ resp = [op |-> "none", status |-> 0]
    /\ removedIds = {}
    /\ restarted = FALSE

\* GET /init: CREATE TABLE IF NOT EXISTS on a table that exists
init_db ==
    /\ resp' = [op |-> "init", status |-> 200]
    /\ UNCHANGED <<items, seq, now, removedIds, restarted>>

\* POST /reset: DROP TABLE IF EXISTS items, then CREATE TABLE; the sequence
\* owned by items.id is dropped with the table and created anew
reset_db ==
    /\ items' = {}
    /\ seq' = 1
    /\ removedIds' = removedIds \cup Ids(items)
    /\ restarted' = TRUE
    /\ resp' = [op |-> "reset", status |-> 200]
    /\ UNCHANGED now

\* WHERE name ILIKE %s AND value >= %s AND value <= %s, each condition only
\* when its argument was given
Where(store, name_query, min_value, max_value) ==
    {r \in store :
        /\ name_query # <<>> => ILike(r.name, <<"%">> \o name_query \o <<"%">>)
        /\ min_value.given => r.value >= min_value.v
        /\ max_value.given => r.value <= max_value.v}

\* GET /search?q=..&min_value=..&max_value=..&limit=..
search_items ==
    \E q \in QueryInputs, lo \in MinInputs, hi \in MaxInputs, lim \in LimitInputs :
        LET name_query == Strip(q)
            limit == _parse_limit(lim, DefaultLimit)
            min_value == IF lo.given THEN _coerce_value(lo.raw)
                         ELSE [ok |-> TRUE, v |-> 0, err |-> "none"]
            max_value == IF hi.given THEN _coerce_value(hi.raw)
                         ELSE [ok |-> TRUE, v |-> 0, err |-> "none"]
            found == Where(items, name_query,
                           [given |-> lo.given, v |-> min_value.v],
                           [given |-> hi.given, v |-> max_value.v])
        IN  /\ IF ~min_value.ok \/ ~max_value.ok
               THEN resp' = [op |-> "search", q |-> q, lo |-> lo, hi |-> hi,
                             lim |-> lim, status |-> 400,
                             err |-> IF ~min_value.ok THEN min_value.err
                                     ELSE max_value.err]
               ELSE \E rows \in OrderBy(found, [r \in found |-> 0 - r.value]) :
                        LET n == IF Len(rows) < limit THEN Len(rows) ELSE limit
                        IN  resp' = [op |-> "search", q |-> q, lo |-> lo,
                                     hi |-> hi, lim |-> lim, status |-> 200,
                                     err |-> "none", returned |-> n,
                                     rows |-> [i \in 1..n |->
                                                 _serialize_item(rows[i])]]
            /\ UNCHANGED <<items, seq, now, removedIds, restarted>>

\* a loop that drops the entries it cannot parse and keeps the others
RECURSIVE ParseRowsSkipping(_, _)
ParseRowsSkipping(dataset, parsed_rows) ==
    IF dataset = <<>> THEN [ok |-> TRUE, err |-> "none", rows |-> parsed_rows]
    ELSE LET entry == Head(dataset)
             p == _parse_create_payload(entry.data)
         IN  IF ~entry.obj \/ ~p.ok
             THEN ParseRowsSkipping(Tail(dataset), parsed_rows)
             ELSE ParseRowsSkipping(Tail(dataset), Append(parsed_rows, p))

\* the loop over dataset that fills parsed_rows, stopping at the first
\* entry that is not an object or does not validate
RECURSIVE ParseRows(_, _)
ParseRows(dataset, parsed_rows) ==
    IF dataset = <<>> THEN [ok |-> TRUE, err |-> "none", rows |-> parsed_rows]
    ELSE LET entry == Head(dataset)
             p == _parse_create_payload(entry.data)
         IN  IF ~entry.obj
             THEN [ok |-> FALSE, err |-> "each item must be an object",
                   rows |-> parsed_rows]
             ELSE IF ~p.ok
             THEN [ok |-> FALSE, err |-> "invalid item", rows |-> parsed_rows]
             ELSE ParseRows(Tail(dataset), Append(parsed_rows, p))

\* dataset = payload.get("items") or SEED_ITEMS
Dataset(body) ==
    IF body.kind = "missing" \/ (body.kind = "list" /\ body.list = <<>>)
    THEN [list |-> TRUE, rows |-> SEED_ITEMS]
    ELSE [list |-> body.kind = "list", rows |-> body.list]

\* the handler up to the point where it opens the transaction, as a table
\* over the bodies tried
Parsed ==
    [body \in BatchBodies \cup CoreBodies \cup OtherBodies |->
        LET dataset == Dataset(body)
        IN  [list |-> dataset.list, parsed |-> ParseRows(dataset.rows, <<>>)]]

Replace == [flag \in ReplaceInputs |-> _as_bool(flag)]

\* POST /seed, for the bodies of Bodies; MaxRows bounds the sequence
Seed(Bodies, MaxRows) ==
    \E flag \in ReplaceInputs, body \in Bodies :
        LET replace == Replace[flag]
            dataset == Parsed[body]
            parsed == dataset.parsed
            fail(e) ==
                /\ resp' = [op |-> "seed", replace |-> replace, body |-> body,
                            status |-> 400, err |-> e]
                /\ UNCHANGED <<items, seq, now, removedIds, restarted>>
        IN  IF ~dataset.list THEN fail("items must be a JSON list")
            ELSE IF ~parsed.ok THEN fail(parsed.err)
            ELSE IF parsed.rows = <<>> THEN fail("no items to insert")
            ELSE LET t == Tick(now)
                     start == IF replace THEN Truncate([seq |-> seq, items |-> items])
                              ELSE [seq |-> seq, items |-> items]
                     db == ExecuteMany(start, t, parsed.rows)
                 IN  /\ now < MaxClock
                     /\ db.seq <= MaxRows + 1
                     /\ items' = db.items
                     /\ seq' = db.seq
                     /\ now' = t
                     /\ removedIds' = IF replace THEN removedIds \cup Ids(items)
                                       ELSE removedIds
                     /\ restarted' = (restarted \/ replace)
                     /\ resp' = [op |-> "seed", replace |-> replace,
                                 body |-> body, status |-> 200, err |-> "none",
                                 processed |-> Len(parsed.rows),
                                 total_rows |-> Cardinality(db.items)]

\* POST /seed with a batch of entries that validate
seed_data == Seed(CoreBodies, MaxSeq)

\* POST /seed with a batch of any entries
seed_batch == Seed(BatchBodies, MaxSeq)

\* POST /seed with a body that carries no batch
seed_default == Seed(OtherBodies, MaxSeq + Len(SEED_ITEMS))

\* the payloads tried, parsed
ParsedCreate ==
    [data \in CreateInputs \cup AddInputs |-> _parse_create_payload(data)]

ParsedPartial == [data \in PatchInputs |-> _parse_partial_payload(data)]

\* the body shared by POST /items and GET /add
Insert(op, created, data) ==
    LET p == ParsedCreate[data]
    IN  IF ~p.ok
        THEN /\ resp' = [op |-> op, data |-> data, status |-> 400, err |-> p.err]
             /\ UNCHANGED <<items, seq, now, removedIds, restarted>>
        ELSE /\ seq <= MaxSeq
             /\ now < MaxClock
             /\ LET r == _insert_item(items, seq, Tick(now), p.name, p.value, p.note)
                IN  /\ seq' = r.seq
                    /\ items' = r.items
                    /\ IF r.ok
                       THEN /\ now' = Tick(now)
                            /\ resp' = [op |-> op, data |-> data, status |-> created,
                                        err |-> "none",
                                        item |-> _serialize_item(r.row)]
                       ELSE /\ now' = now
                            /\ resp' = [op |-> op, data |-> data, status |-> 409,
                                        err |-> "name must be unique"]
             /\ UNCHANGED <<removedIds, restarted>>

\* POST /items
create_item == \E data \in CreateInputs : Insert("create", 201, data)

\* GET /add?name=..&value=..&note=..
add_item == \E data \in AddInputs : Insert("add", 200, data)

\* SELECT ... FROM items WHERE id = %s, then 404 or the serialized row
ReadItem(store, item_id) ==
    IF item_id \in Ids(store)
    THEN [op |-> "get", id |-> item_id, status |-> 200, err |-> "none",
          item |-> _serialize_item(RowOf(store, item_id))]
    ELSE [op |-> "get", id |-> item_id, status |-> 404, err |-> "item not found"]

\* GET /items/<id>
get_item ==
    \E item_id \in IdInputs :
        /\ resp' = ReadItem(items, item_id)
        /\ UNCHANGED <<items, seq, now, removedIds, restarted>>

\* SELECT ... FROM items ORDER BY created_at: the lists the query can return
ListRows(store) ==
    {[i \in 1..Len(rows) |-> _serialize_item(rows[i])] :
        rows \in OrderBy(store, [r \in store |-> r.created_at])}

\* GET /items
list_items_json ==
    \E rows \in ListRows(items) :
        /\ resp' = [op |-> "list", status |-> 200, count |-> Len(rows),
                    rows |-> rows]
        /\ UNCHANGED <<items, seq, now, removedIds, restarted>>

\* the body shared by PUT and PATCH once the payload is parsed
Update(op, item_id, data, p) ==
    IF ~p.ok
    THEN /\ resp' = [op |-> op, id |-> item_id, data |-> data, status |-> 400,
                     err |-> p.err]
         /\ UNCHANGED <<items, seq, now, removedIds, restarted>>
    ELSE /\ now < MaxClock
         /\ LET r == _update_item(items, Tick(now), item_id, p.fields)
            IN  /\ items' = r.items
                /\ IF ~r.ok
                   THEN /\ now' = now
                        /\ resp' = [op |-> op, id |-> item_id, data |-> data,
                                    status |-> 409, err |-> "name must be unique"]
                   ELSE IF ~r.found
                   THEN /\ now' = now
                        /\ resp' = [op |-> op, id |-> item_id, data |-> data,
                                    status |-> 404, err |-> "item not found"]
                   ELSE /\ now' = Tick(now)
                        /\ resp' = [op |-> op, id |-> item_id, data |-> data,
                                    status |-> 200, err |-> "none",
                                    item |-> _serialize_item(r.row)]
         /\ UNCHANGED <<seq, removedIds, restarted>>

\* PUT /items/<id>
replace_item ==
    \E item_id \in IdInputs, data \in CreateInputs :
        LET c == ParsedCreate[data]
        IN  Update("put", item_id, data,
                   IF c.ok
                   THEN [ok |-> TRUE, err |-> "none",
                         fields |-> [name |-> c.name, value |-> c.value,
                                     note |-> c.note]]
                   ELSE c)

\* PATCH /items/<id>
update_item ==
    \E item_id \in IdInputs, data \in PatchInputs :
        Update("patch", item_id, data, ParsedPartial[data])

\* DELETE /items/<id>
delete_item ==
    \E item_id \in IdInputs :
        LET r == _delete_item(items, item_id)
        IN  /\ items' = r.items
            /\ removedIds' = IF r.found THEN removedIds \cup {item_id}
                              ELSE removedIds
            /\ resp' = IF r.found
                       THEN [op |-> "delete", id |-> item_id, status |-> 200,
                             err |-> "none"]
                       ELSE [op |-> "delete", id |-> item_id, status |-> 404,
                             err |-> "item not found"]
            /\ UNCHANGED <<seq, now, restarted>>

Next ==
    \/ init_db
    \/ reset_db
    \/ seed_data
    \/ create_item
    \/ add_item
    \/ get_item
    \/ list_items_json
    \/ replace_item
    \/ update_item
    \/ delete_item

Spec == Init /\ [][Next]_vars

\* the seed handler with batches of valid and invalid entries
SeedNext ==
    \/ seed_batch
    \/ add_item
    \/ list_items_json
    \/ delete_item

SeedSpec == Init /\ [][SeedNext]_vars

\* the search handler on tables of up to three rows, as left by one seed
SearchInit ==
    /\ items \in SUBSET SearchRows
    /\ seq = 4
    /\ now = 1
    /\ resp = [op |-> "none", status |-> 0]
    /\ removedIds = {}
    /\ restarted = FALSE

SearchSpec == SearchInit /\ [][search_items]_vars

\* the seed handler with bodies that carry no batch
DefaultNext ==
    \/ seed_default
    \/ list_items_json
    \/ get_item
    \/ delete_item

DefaultSpec == Init /\ [][DefaultNext]_vars

\* ---------------------------------------------------------------- claims

Names(store) == {r.name : r \in store}

UniqueNames(store) ==
    \A r1, r2 \in store : r1.name = r2.name => r1 = r2

Mutating == {"put", "patch"}
Creating == {"create", "add"}

\* C1, as stated: an id that was assigned to an item and then removed is
\* never the id of an item in the table again.
C1_IdNeverReused ==
    \A r \in items : r.id \notin removedIds

\* C1, amended: as long as no POST /reset and no seed with replace=true has
\* run, an id that was assigned and then removed is never the id of an item
\* again; those two operations restart the sequence at 1.
C1_IdNeverReusedWithoutRestart ==
    ~restarted => \A r \in items : r.id \notin removedIds

\* an item has just been created after some other item was removed, with
\* no restart of the sequence
C1_Witness ==
    /\ ~restarted
    /\ removedIds # {}
    /\ resp.op = "create" /\ resp.status = 201

\* C2: no two items ever share a name, and a create, PUT or PATCH whose
\* payload validates and whose trimmed name is the name of another existing
\* item is answered 409 and leaves the table as it was.
C2_NameUnique ==
    [][/\ UniqueNames(items')
       /\ (resp'.op \in Creating /\ ParsedCreate[resp'.data].ok
            /\ Strip(resp'.data.name) \in Names(items))
          => (resp'.status = 409 /\ items' = items)
       /\ (resp'.op \in Mutating /\ resp'.id \in Ids(items)
            /\ "name" \in DOMAIN resp'.data
            /\ (IF resp'.op = "put" THEN ParsedCreate[resp'.data].ok
                 ELSE ParsedPartial[resp'.data].ok)
            /\ \E r \in items : r.id # resp'.id
                                 /\ r.name = Strip(resp'.data.name))
          => (resp'.status = 409 /\ items' = items)]_vars

\* a PUT or PATCH has just been refused because another item has the name
C2_Witness ==
    /\ resp.op \in Mutating /\ resp.status = 409
    /\ \E r \in items : r.id # resp.id /\ r.name = Strip(resp.data.name)

\* C10: DELETE of an id that is not in the table answers 404 and changes
\* nothing; DELETE of an id that is there removes exactly that row; a GET,
\* a PUT or PATCH with a valid payload, or a DELETE of an id that is not in
\* the table answers 404; and an id that is not in the table only comes to
\* be in it by a step that creates items (POST /items, GET /add, POST /seed).
C10_DeleteIsPermanent ==
    [][/\ (resp'.op = "delete" /\ resp'.id \notin Ids(items))
          => (resp'.status = 404 /\ items' = items)
       /\ (resp'.op = "delete" /\ resp'.id \in Ids(items))
          => (resp'.status = 200
              /\ items' = items \ {RowOf(items, resp'.id)}
              /\ resp'.id \notin Ids(items'))
       /\ (resp'.op = "get" /\ resp'.id \notin Ids(items))
          => resp'.status = 404
       /\ (resp'.op \in Mutating /\ resp'.id \notin Ids(items)
            /\ (IF resp'.op = "put" THEN ParsedCreate[resp'.data].ok
                 ELSE ParsedPartial[resp'.data].ok))
          => (resp'.status = 404 /\ items' = items)
       /\ (Ids(items') \ Ids(items) # {})
          => (resp'.op \in Creating \cup {"seed"})]_vars

\* an id that was deleted has just been read, and the answer was 404
C10_Witness ==
    /\ resp.op = "get" /\ resp.status = 404
    /\ resp.id \in removedIds
    /\ items # {}

\* C7: a PATCH answered 200 changes, in the row it names, only the fields
\* of its payload (each to its coerced value); the row keeps its id and
\* created_at, its updated_at is strictly later than before, and every
\* other row is as it was.
C7_PatchTouchesOnlyNamedFields ==
    [][(resp'.op = "patch" /\ resp'.status = 200) =>
         LET data == resp'.data
             old == RowOf(items, resp'.id)
             new == RowOf(items', resp'.id)
         IN  /\ resp'.id \in Ids(items) /\ resp'.id \in Ids(items')
             /\ new.name = IF "name" \in DOMAIN data THEN Strip(data.name)
                            ELSE old.name
             /\ new.value = IF "value" \in DOMAIN data THEN data.value.n
                             ELSE old.value
             /\ new.note = IF "note" \in DOMAIN data THEN Strip(data.note)
                            ELSE old.note
             /\ new.created_at = old.created_at
             /\ new.updated_at > old.updated_at
             /\ items' \ {new} = items \ {old}
             /\ Cardinality(items') = Cardinality(items)]_vars

\* a PATCH with only a note has just changed one of several rows
C7_Witness ==
    /\ resp.op = "patch" /\ resp.status = 200
    /\ DOMAIN resp.data = {"note"}
    /\ Cardinality(items) >= 2
    /\ RowOf(items, resp.id).updated_at > RowOf(items, resp.id).created_at

Trimmed(s) == s = <<>> \/ (s[1] # Space /\ s[Len(s)] # Space)

\* C8: after POST /items is answered 201, reading the id it returned gives
\* the name and note of the payload without surrounding blanks (so exactly
\* the submitted ones when they have none), the submitted value, an id that
\* no row had before, and created_at equal to updated_at.
C8_CreateThenRead ==
    [][(resp'.op = "create" /\ resp'.status = 201) =>
         LET data == resp'.data
             got == ReadItem(items', resp'.item.id)
         IN  /\ resp'.item.id \notin Ids(items)
             /\ got.status = 200
             /\ got.item = resp'.item
             /\ got.item.name = Strip(data.name)
             /\ Trimmed(data.name) => got.item.name = data.name
             /\ got.item.value = data.value.n /\ data.value.n >= 0
             /\ got.item.note = Strip(GetText(data, "note"))
             /\ Trimmed(GetText(data, "note"))
                => got.item.note = GetText(data, "note")
             /\ got.item.created_at = got.item.updated_at]_vars

\* an item with a name and a note that need no trimming has just been
\* created beside another one, and can be read back
C8_Witness ==
    /\ resp.op = "create" /\ resp.status = 201
    /\ Trimmed(resp.data.name)
    /\ "note" \in DOMAIN resp.data /\ resp.data.note # <<>>
    /\ Trimmed(resp.data.note)
    /\ ReadItem(items, resp.item.id).item.note = resp.data.note
    /\ Cardinality(items) >= 2

\* what the claims call a valid entry of a seed batch
EntryValid(e) ==
    /\ e.obj
    /\ Strip(GetText(e.data, "name")) # <<>>
    /\ GetValue(e.data, "value").num
    /\ GetValue(e.data, "value").n >= 0

HasInvalidEntry(body) ==
    /\ body.kind = "list"
    /\ \E i \in 1..Len(body.list) : ~EntryValid(body.list[i])

EntryName(l, i) == Strip(GetText(l[i].data, "name"))
EntryNote(l, i) == Strip(GetText(l[i].data, "note"))
EntryValue(l, i) == l[i].data.value.n
BatchNames(l) == {EntryName(l, i) : i \in 1..Len(l)}

\* the last entry of l that has the name of entry i
LastOf(l, i) ==
    CHOOSE j \in i..Len(l) :
        /\ EntryName(l, j) = EntryName(l, i)
        /\ \A k \in (j + 1)..Len(l) : EntryName(l, k) # EntryName(l, i)

IsFirst(l, i) == \A j \in 1..(i - 1) : EntryName(l, j) # EntryName(l, i)

\* C3: a seed whose batch has an entry that is not an object, has an empty
\* name, or a value that is not a number or is negative is answered 400
\* with a validation error, whatever the replace flag, and the table and
\* its sequence are exactly as before.
C3_InvalidBatchChangesNothing ==
    [][(resp'.op = "seed" /\ HasInvalidEntry(resp'.body)) =>
         /\ resp'.status = 400
         /\ resp'.err \in {"each item must be an object", "invalid item"}
         /\ items' = items /\ seq' = seq /\ now' = now]_vars

\* a seed with replace=true whose batch is a valid entry followed by an
\* invalid one has just been refused on a table that holds rows
C3_Witness ==
    /\ resp.op = "seed" /\ resp.status = 400 /\ resp.replace
    /\ HasInvalidEntry(resp.body)
    /\ EntryValid(resp.body.list[1])
    /\ items # {}

\* C4: a seed whose items list is empty is answered 400 "no items to
\* insert" and inserts nothing.
C4_EmptyBatchRejected ==
    [][(resp'.op = "seed" /\ resp'.body.kind = "list"
        /\ resp'.body.list = <<>>) =>
         /\ resp'.status = 400
         /\ resp'.err = "no items to insert"
         /\ items' = items]_vars

EntryMatches(row, l, i) ==
    /\ row.name = EntryName(l, i)
    /\ row.value = EntryValue(l, i)
    /\ row.note = EntryNote(l, i)

\* C5, as stated: after a seed with replace=true and a valid batch [A, B],
\* the list is A then B and nothing else.
C5_ListIsBatchInOrder ==
    [][(resp'.op = "seed" /\ resp'.status = 200 /\ resp'.replace
        /\ Len(resp'.body.list) = 2) =>
         \A rows \in ListRows(items') :
             /\ Len(rows) = 2
             /\ EntryMatches(rows[1], resp'.body.list, 1)
             /\ EntryMatches(rows[2], resp'.body.list, 2)]_vars

\* the rows a seed with replace=true leaves at time t: one per name of the
\* batch, numbered by first occurrence, with the last value and note
RowsOfBatch(l, t) ==
    {[id |-> i, name |-> EntryName(l, i),
      value |-> EntryValue(l, LastOf(l, i)), note |-> EntryNote(l, LastOf(l, i)),
      created_at |-> t, updated_at |-> t] :
        i \in {k \in 1..Len(l) : IsFirst(l, k)}}

\* C5, amended: after a seed with replace=true and a valid batch, the list
\* holds exactly one item per name of the batch (value and note of the last
\* entry with that name, ids from 1) and no item from before; for [A, B]
\* with different names these are the two items A and B.  All of them have
\* the same created_at, the sort key of the list, so their order is open.
C5_ListIsBatchAsSet ==
    [][(resp'.op = "seed" /\ resp'.status = 200 /\ resp'.replace) =>
         LET l == resp'.body.list
         IN  /\ items' = RowsOfBatch(l, now')
             /\ items' \cap items = {}
             /\ \A rows \in ListRows(items') :
                    /\ {rows[i] : i \in 1..Len(rows)} = items'
                    /\ Len(rows) = Cardinality(BatchNames(l))
                    /\ (Len(l) = 2 /\ EntryName(l, 1) # EntryName(l, 2)) =>
                          \E i, j \in 1..2 :
                              /\ i # j /\ Len(rows) = 2
                              /\ EntryMatches(rows[i], l, 1)
                              /\ EntryMatches(rows[j], l, 2)]_vars

\* a seed with replace=true and a batch of two names has just replaced a
\* table that held a row
C5_Witness ==
    /\ resp.op = "seed" /\ resp.status = 200 /\ resp.replace
    /\ Len(resp.body.list) = 2
    /\ Cardinality(items) = 2
    /\ removedIds # {}
    /\ now > 1

\* C6: a seed with replace=false leaves every row whose name is not in the
\* batch as it was; a row whose name is in the batch keeps its id and
\* created_at and takes the value and note of the last entry with its name;
\* a name that is new gets one row with the value and note of the last
\* entry with that name; and the table has one row per name.
C6_SeedMerges ==
    [][(resp'.op = "seed" /\ resp'.status = 200 /\ ~resp'.replace) =>
         LET l == resp'.body.list
         IN  /\ \A r \in items : r.name \notin BatchNames(l) => r \in items'
             /\ \A i \in 1..Len(l) :
                    \E r \in items' :
                        /\ r.name = EntryName(l, i)
                        /\ r.value = EntryValue(l, LastOf(l, i))
                        /\ r.note = EntryNote(l, LastOf(l, i))
                        /\ r.updated_at = now'
                        /\ \A o \in items : o.name = r.name =>
                               (o.id = r.id /\ o.created_at = r.created_at)
                        /\ (r.name \notin Names(items)) =>
                               (r.id \notin Ids(items) /\ r.created_at = now')
             /\ UniqueNames(items')
             /\ Names(items') = Names(items) \cup BatchNames(l)]_vars

\* a seed with replace=false whose two entries have one name and different
\* values has just run on a table that held a row of another name
C6_Witness ==
    /\ resp.op = "seed" /\ resp.status = 200 /\ ~resp.replace
    /\ Len(resp.body.list) = 2
    /\ EntryName(resp.body.list, 1) = EntryName(resp.body.list, 2)
    /\ EntryValue(resp.body.list, 1) # EntryValue(resp.body.list, 2)
    /\ Cardinality(items) = 2
    /\ \E r \in items : r.updated_at < now

\* q occurs in s, letter case aside
Contains(s, q) ==
    \E i \in 1..(Len(s) - Len(q) + 1) :
        Lower(SubSeq(s, i, i + Len(q) - 1)) = Lower(q)

\* the rows of store that meet every predicate the request supplies
Matching(store, q, lo, hi) ==
    {r \in store :
        /\ q # <<>> => Contains(r.name, q)
        /\ lo.given => r.value >= lo.raw.n
        /\ hi.given => r.value <= hi.raw.n}

\* the limit in force: the argument, or 20 without one, kept within 1..100
LimitInForce(lim) ==
    LET n == IF lim.given /\ lim.raw.num THEN lim.raw.n ELSE DefaultLimit
    IN  IF n < 1 THEN 1 ELSE IF n > 100 THEN 100 ELSE n

BoundOk(arg) == arg.given => (arg.raw.num /\ arg.raw.n >= 0)

\* C9: a search whose bounds are numbers is answered 200 with at most limit
\* rows; every row returned is a row of the table whose name contains the
\* substring (letter case aside) and whose value lies within the bounds
\* given; rows come by value, descending; a predicate that is absent
\* excludes nothing (as many matching rows as the limit allows are
\* returned); and min_value > max_value gives no rows and no error.
C9_SearchContract ==
    (resp.op = "search" /\ BoundOk(resp.lo) /\ BoundOk(resp.hi)) =>
        LET q == Strip(resp.q)
            matching == Matching(items, q, resp.lo, resp.hi)
            rows == resp.rows
            limit == LimitInForce(resp.lim)
        IN  /\ resp.status = 200
            /\ Len(rows) <= limit
            /\ \A i \in 1..Len(rows) : rows[i] \in matching
            /\ \A i, j \in 1..Len(rows) :
                   i < j => (rows[i].value >= rows[j].value /\ rows[i] # rows[j])
            /\ Len(rows) = IF Cardinality(matching) < limit
                            THEN Cardinality(matching) ELSE limit
            /\ (resp.lo.given /\ resp.hi.given /\ resp.lo.raw.n > resp.hi.raw.n)
               => rows = <<>>

====
